---- MODULE Spec2Model ----
(***************************************************************************)
(* The version cache of bds-version-lookup (utils.ts) and the HTTP         *)
(* handlers of index.ts that drive it, as a state machine.                 *)
(*                                                                         *)
(* Node runs one callback at a time, so every action below is one run of   *)
(* JavaScript from the point where a callback (or the continuation of an   *)
(* await) starts to the point where it suspends at its next await on the   *)
(* scraper (lookupLatestVersionInternal) or returns.  A call of the        *)
(* scraper in flight is a task that later resolves with a version or       *)
(* rejects; the wall clock moves between callbacks.                        *)
(***************************************************************************)
EXTENDS Integers, FiniteSets, Sequences, Bags, TLC

VARIABLES
    versionCache,   \* utils.ts: const versionCache: CacheStore
    now,            \* Date.now(), in milliseconds since the server started to listen
    listening,      \* index.ts: app.listen has called its callback
    initState,      \* initializeCache(): "idle", "running", "completed", "failed"
    initFetch,      \* per key, the warm-up promise of initializeCache: "idle", "pending", "failed",
                    \* the version it resolved with (while initializeCache runs), "done" (afterwards)
    lookups,        \* bag of [key, isFromCache]: lookupLatestVersion calls suspended at their scraper call (cache miss)
    refreshes,      \* bag of [key, entry]: refreshCacheEntry calls suspended at their scraper call
    res,            \* the HTTP response sent by the last step (NoRes when it sent none)
    refreshed       \* history, kept by SpecHistory only: per key, the version a background refresh
                    \* stored after the last call of lookupLatestVersion for the key, else "none"

vars == <<versionCache, now, listening, initState, initFetch, lookups, refreshes, res, refreshed>>

(***************************************************************************)
(* Bounds of the model.                                                    *)
(***************************************************************************)
\* The clock is observed up to MaxPeriods cache durations after start.
MaxPeriods == 2
\* Scraper calls started by requests (cache misses and background refreshes)
\* that are in flight at the same time.
MaxInFlight == 2

(***************************************************************************)
(* config.ts                                                               *)
(***************************************************************************)
VALID_BDS_TYPES == {"win", "linux"}

CACHE_DURATION_MS == 6 * 60 * 60 * 1000

(***************************************************************************)
(* utils.ts: keys, entries, the pure helpers                               *)
(***************************************************************************)
\* Variant: the key is the type alone.
getCacheKeyByType(bdsType, bdsPreview) ==
    bdsType

getCacheKey(bdsType, bdsPreview) ==
    bdsType \o "-" \o (IF bdsPreview THEN "preview" ELSE "stable")

\* The four { type, preview } pairs that initializeCache and /cache/status
\* list, in their order.
combinations ==
    << [type |-> "win",   preview |-> FALSE],
       [type |-> "win",   preview |-> TRUE],
       [type |-> "linux", preview |-> FALSE],
       [type |-> "linux", preview |-> TRUE] >>

\* The combinations the model follows: the first and the last of the four,
\* which differ in type and in preview.  Every operation of the cache reads
\* and writes the entry of its own key only, so the two combinations left
\* out would add two more copies of the same per-key behaviour.
Followed == {combinations[1], combinations[4]}

Keys == {getCacheKey(c.type, c.preview) : c \in Followed}

\* What a call of the scraper for a key may resolve with: a version string
\* read from the download link of the key's card (1 = win, 2 = linux) and
\* input (0 = stable, 1 = preview).  Two values per key, so that a later
\* fetch can differ from an earlier one.
lookupLatestVersionInternal(bdsType, bdsPreview) ==
    LET card  == IF bdsType = "win" THEN "1" ELSE "2"
        input == IF bdsPreview THEN "1" ELSE "0"
    IN  {"1." \o card \o "." \o input \o "." \o n : n \in {"0", "1"}}

\* The scraper's possible results, by cache key.
Fetcher(key) ==
    UNION {lookupLatestVersionInternal(c.type, c.preview) :
               c \in {d \in Followed : getCacheKey(d.type, d.preview) = key}}

\* interface CacheEntry.  obj is the identity of the JavaScript object: the
\* code holds references to entries (refreshCacheEntry's const entry), and
\* setCachedVersion stores a new object instead of updating the old one.
CacheEntry(version, timestamp, refreshing, obj) ==
    [version |-> version, timestamp |-> timestamp, refreshing |-> refreshing, obj |-> obj]

\* The reference held by a refreshCacheEntry that found no entry.
undefined == 0

\* Variant: the age in milliseconds compared with the duration in seconds.
isCacheValidInSeconds(entry) ==
    now - entry.timestamp < 6 * 60 * 60

\* Variant: an entry as old as the cache duration is still valid.
isCacheValidInclusive(entry) ==
    now - entry.timestamp <= CACHE_DURATION_MS

isCacheValid(entry) ==
    now - entry.timestamp < CACHE_DURATION_MS

null == "null"

\* Variant: an expired entry counts as no entry.
getCachedVersionIfValid(key) ==
    IF key \notin DOMAIN versionCache \/ ~isCacheValid(versionCache[key])
    THEN null
    ELSE versionCache[key].version

\* Variant: a key that has no entry gets a default version.
getCachedVersionOrDefault(key) ==
    IF key \notin DOMAIN versionCache
    THEN "0.0.0.0"
    ELSE versionCache[key].version

\* getCachedVersion, by key: the stored version, expired or not.
getCachedVersion(key) ==
    IF key \notin DOMAIN versionCache
    THEN null
    ELSE versionCache[key].version

\* The identity of the entry object that setCachedVersion creates for a
\* key.  Identities are only ever compared for equality, so the new object
\* takes the least one that no suspended refreshCacheEntry holds for the key:
\* the object it replaces in the cache is referred to by nothing else, and
\* its identity is reused.
newObject(key) ==
    LET held == {t.entry : t \in {u \in BagToSet(refreshes) : u.key = key}}
    IN  CHOOSE i \in 1..(Cardinality(held) + 1) :
            i \notin held /\ \A j \in 1..(i - 1) : j \in held

\* Variant: the store is replaced by one that holds the new entry alone.
setCachedVersionAlone(key, version) ==
    [k \in {key} |-> CacheEntry(version, now, FALSE, newObject(key))]

\* Variant: the new entry keeps the refreshing flag of the entry it replaces.
setCachedVersionKeepsFlag(key, version) ==
    LET refreshing == key \in DOMAIN versionCache /\ versionCache[key].refreshing
        entry == CacheEntry(version, now, refreshing, newObject(key))
    IN  [k \in DOMAIN versionCache \cup {key} |->
            IF k = key THEN entry ELSE versionCache[k]]

\* versionCache after setCachedVersion(key, version): a new entry object.
setCachedVersion(key, version) ==
    LET obj == newObject(key)
        entry == CacheEntry(version, now, FALSE, obj)
    IN  [k \in DOMAIN versionCache \cup {key} |->
            IF k = key THEN entry ELSE versionCache[k]]

(***************************************************************************)
(* HTTP responses                                                          *)
(***************************************************************************)
NoRes == [kind |-> "none"]

\* GET /version/:type/:preview, res.json({version, ..., cached})
VersionRes(key, version, isFromCache) ==
    [kind |-> "version", key |-> key, version |-> version, cached |-> isFromCache]

\* GET /version/:type/:preview, res.status(500)
ErrorRes(key) == [kind |-> "error", key |-> key]

\* Variant: an expired entry is reported as not cached.
cacheStatusOfValid ==
    [key \in Keys |->
        LET cachedVersion == getCachedVersionIfValid(key)
        IN  [cached |-> cachedVersion # null, version |-> cachedVersion]]

\* GET /cache/status: one { cached, version } per combination.
cacheStatus ==
    [key \in Keys |->
        LET cachedVersion == getCachedVersion(key)
        IN  [cached |-> cachedVersion # null, version |-> cachedVersion]]

StatusRes == [kind |-> "status", entries |-> cacheStatus]

(***************************************************************************)
(* The clock                                                               *)
(***************************************************************************)
\* The instants at which the model looks at the clock: the multiples of the
\* cache duration, and the millisecond before the first one.
Instants ==
    {m * CACHE_DURATION_MS : m \in 0..MaxPeriods} \cup {CACHE_DURATION_MS - 1}

\* The scraper calls started by requests that are in flight.
InFlight == BagCardinality(lookups) + BagCardinality(refreshes)

Init ==
    /\ versionCache = <<>>
    /\ now = 0
    /\ listening = FALSE
    /\ initState = "idle"
    /\ initFetch = [k \in Keys |-> "idle"]
    /\ lookups = EmptyBag
    /\ refreshes = EmptyBag
    /\ res = NoRes
    /\ refreshed = [k \in Keys |-> "none"]

\* Time passes between two callbacks.  The clock is read from the moment
\* the server listens (now = 0 then); nothing reads it before.
Tick ==
    /\ listening
    /\ \E t \in Instants : t > now /\ now' = t
    /\ res' = NoRes
    /\ UNCHANGED <<versionCache, listening, initState, initFetch, lookups, refreshes>>

(***************************************************************************)
(* utils.ts: the background refresh                                        *)
(***************************************************************************)
\* refreshCacheEntry(key) up to its await of the scraper: returns at once
\* when the entry it reads is marked, else marks the entry (when there is
\* one) and suspends holding the reference to it.
refreshCacheEntry(key) ==
    LET present == key \in DOMAIN versionCache
    IN  IF present /\ versionCache[key].refreshing
        THEN UNCHANGED <<versionCache, refreshes>>
        ELSE /\ versionCache' =
                    IF present
                    THEN [versionCache EXCEPT ![key].refreshing = TRUE]
                    ELSE versionCache
             /\ refreshes' = refreshes (+) SetToBag({
                    [key |-> key,
                     entry |-> IF present THEN versionCache[key].obj ELSE undefined]})

\* checkAndRefreshCache(key): starts refreshCacheEntry, not awaited, when the
\* entry is missing or expired.
checkAndRefreshCache(key) ==
    IF key \notin DOMAIN versionCache \/ ~isCacheValid(versionCache[key])
    THEN refreshCacheEntry(key)
    ELSE UNCHANGED <<versionCache, refreshes>>

\* The scraper call of a refreshCacheEntry resolves: setCachedVersion.
RefreshResolve(t, version) ==
    /\ BagIn(t, refreshes)
    /\ version \in Fetcher(t.key)
    /\ versionCache' = setCachedVersion(t.key, version)
    /\ refreshes' = refreshes (-) SetToBag({t})
    /\ res' = NoRes
    /\ UNCHANGED <<now, listening, initState, initFetch, lookups>>

\* Variant: the catch block leaves the flag as it is.
RefreshRejectKeepsFlag(t) ==
    /\ BagIn(t, refreshes)
    /\ refreshes' = refreshes (-) SetToBag({t})
    /\ res' = NoRes
    /\ UNCHANGED <<versionCache, now, listening, initState, initFetch, lookups>>

\* The scraper call of a refreshCacheEntry rejects: the catch block clears
\* the flag of the object the call holds.  When setCachedVersion has stored
\* another object for the key since, the object held is no longer in the
\* cache (nothing else refers to it) and the cache is as it was.
RefreshReject(t) ==
    /\ BagIn(t, refreshes)
    /\ versionCache' =
            IF /\ t.entry # undefined
               /\ t.key \in DOMAIN versionCache
               /\ versionCache[t.key].obj = t.entry
            THEN [versionCache EXCEPT ![t.key].refreshing = FALSE]
            ELSE versionCache
    /\ refreshes' = refreshes (-) SetToBag({t})
    /\ res' = NoRes
    /\ UNCHANGED <<now, listening, initState, initFetch, lookups>>

(***************************************************************************)
(* utils.ts: lookupLatestVersion; index.ts: GET /version/:type/:preview    *)
(***************************************************************************)
\* lookupLatestVersion(key) up to its return (cached version) or its await
\* of the scraper (no cached version), called by the handler that computed
\* isFromCache.
lookupLatestVersion(key, isFromCache) ==
    LET cachedVersion == getCachedVersion(key)
    IN  IF cachedVersion # null
        THEN /\ checkAndRefreshCache(key)
             /\ lookups' = lookups
             /\ res' = VersionRes(key, cachedVersion, isFromCache)
        ELSE /\ lookups' = lookups (+) SetToBag({[key |-> key, isFromCache |-> isFromCache]})
             /\ res' = NoRes
             /\ UNCHANGED <<versionCache, refreshes>>

\* Variant: the handler reports an expired entry as not cached.
GetVersionCachedIfValid(type, preview) ==
    LET key == getCacheKey(type, preview)
        isFromCache == getCachedVersionIfValid(key) # null
    IN  /\ listening
        /\ lookupLatestVersion(key, isFromCache)
        /\ InFlight' <= MaxInFlight
        /\ UNCHANGED <<now, listening, initState, initFetch>>

\* The handler of GET /version/:type/:preview for valid parameters.
GetVersion(type, preview) ==
    LET key == getCacheKey(type, preview)
        isFromCache == getCachedVersion(key) # null
    IN  /\ listening
        /\ lookupLatestVersion(key, isFromCache)
        /\ InFlight' <= MaxInFlight
        /\ UNCHANGED <<now, listening, initState, initFetch>>

\* Variant: the version fetched on a cache miss is returned and not stored.
LookupResolveNotStored(r, version) ==
    /\ BagIn(r, lookups)
    /\ version \in Fetcher(r.key)
    /\ lookups' = lookups (-) SetToBag({r})
    /\ res' = VersionRes(r.key, version, r.isFromCache)
    /\ UNCHANGED <<versionCache, now, listening, initState, initFetch, refreshes>>

\* The scraper call of a cache-miss lookup resolves: setCachedVersion, and
\* the handler answers with the version.
LookupResolve(r, version) ==
    /\ BagIn(r, lookups)
    /\ version \in Fetcher(r.key)
    /\ versionCache' = setCachedVersion(r.key, version)
    /\ lookups' = lookups (-) SetToBag({r})
    /\ res' = VersionRes(r.key, version, r.isFromCache)
    /\ UNCHANGED <<now, listening, initState, initFetch, refreshes>>

\* The scraper call of a cache-miss lookup rejects: lookupLatestVersion
\* throws and the handler's catch answers 500.
LookupReject(r) ==
    /\ BagIn(r, lookups)
    /\ lookups' = lookups (-) SetToBag({r})
    /\ res' = ErrorRes(r.key)
    /\ UNCHANGED <<versionCache, now, listening, initState, initFetch, refreshes>>

(***************************************************************************)
(* index.ts: GET /cache/status                                             *)
(***************************************************************************)
GetCacheStatus ==
    /\ listening
    /\ res' = StatusRes
    /\ UNCHANGED <<versionCache, now, listening, initState, initFetch, lookups, refreshes>>

(***************************************************************************)
(* index.ts: app.listen callback; utils.ts: initializeCache                *)
(***************************************************************************)
\* The server listens and its callback calls initializeCache, which starts
\* one scraper call per combination and suspends at Promise.all.
Listen ==
    /\ ~listening
    /\ listening' = TRUE
    /\ initState' = "running"
    /\ initFetch' = [k \in Keys |-> "pending"]
    /\ res' = NoRes
    /\ UNCHANGED <<versionCache, now, lookups, refreshes>>

\* initializeCache after one of its promises has settled: Promise.all
\* resolves once none is pending (each promise catches its own error).
initSettled(fetch) ==
    IF \A k \in Keys : fetch[k] # "pending" THEN "completed" ELSE "running"

\* The warm-up promises after one has settled.  While initializeCache runs,
\* a resolved promise is shown with the version its scraper call fetched;
\* when initializeCache returns, the promises are gone and only their
\* outcome is kept.
initPromises(fetch) ==
    IF initSettled(fetch) = "completed"
    THEN [k \in Keys |-> IF fetch[k] = "failed" THEN "failed" ELSE "done"]
    ELSE fetch

\* A warm-up scraper call resolves: setCachedVersion.
InitFetchResolve(key, version) ==
    /\ initFetch[key] = "pending"
    /\ version \in Fetcher(key)
    /\ versionCache' = setCachedVersion(key, version)
    /\ initFetch' = initPromises([initFetch EXCEPT ![key] = version])
    /\ initState' = initSettled(initFetch')
    /\ res' = NoRes
    /\ UNCHANGED <<now, listening, lookups, refreshes>>

\* Variant: the catch block stores an entry with an empty version.
InitFetchRejectStoresEmpty(key) ==
    /\ initFetch[key] = "pending"
    /\ versionCache' = setCachedVersion(key, "")
    /\ initFetch' = initPromises([initFetch EXCEPT ![key] = "failed"])
    /\ initState' = initSettled(initFetch')
    /\ res' = NoRes
    /\ UNCHANGED <<now, listening, lookups, refreshes>>

\* Variant: the promise does not catch its error, which fails Promise.all
\* and initializeCache with it.
InitFetchRejectUncaught(key) ==
    /\ initFetch[key] = "pending"
    /\ initFetch' = [initFetch EXCEPT ![key] = "failed"]
    /\ initState' = "failed"
    /\ res' = NoRes
    /\ UNCHANGED <<versionCache, now, listening, lookups, refreshes>>

\* A warm-up scraper call rejects: the error is logged by the promise's own
\* catch block.
InitFetchReject(key) ==
    /\ initFetch[key] = "pending"
    /\ initFetch' = initPromises([initFetch EXCEPT ![key] = "failed"])
    /\ initState' = initSettled(initFetch')
    /\ res' = NoRes
    /\ UNCHANGED <<versionCache, now, listening, lookups, refreshes>>

\* The server: the history is not kept.
Next ==
    \/ Listen /\ UNCHANGED refreshed
    \/ Tick /\ UNCHANGED refreshed
    \/ \E c \in Followed : GetVersion(c.type, c.preview) /\ UNCHANGED refreshed
    \/ GetCacheStatus /\ UNCHANGED refreshed
    \/ \E r \in BagToSet(lookups) : \E v \in Fetcher(r.key) :
            LookupResolve(r, v) /\ UNCHANGED refreshed
    \/ \E r \in BagToSet(lookups) : LookupReject(r) /\ UNCHANGED refreshed
    \/ \E t \in BagToSet(refreshes) : \E v \in Fetcher(t.key) :
            RefreshResolve(t, v) /\ UNCHANGED refreshed
    \/ \E t \in BagToSet(refreshes) : RefreshReject(t) /\ UNCHANGED refreshed
    \/ \E k \in Keys : \E v \in Fetcher(k) : InitFetchResolve(k, v) /\ UNCHANGED refreshed
    \/ \E k \in Keys : InitFetchReject(k) /\ UNCHANGED refreshed

Spec == Init /\ [][Next]_vars

\* The server with the history kept: a background refresh that resolves
\* records the version it stored, and a call of lookupLatestVersion for the
\* key forgets it.
NextHistory ==
    \/ Listen /\ UNCHANGED refreshed
    \/ Tick /\ UNCHANGED refreshed
    \/ \E c \in Followed :
            /\ GetVersion(c.type, c.preview)
            /\ refreshed' = [refreshed EXCEPT ![getCacheKey(c.type, c.preview)] = "none"]
    \/ GetCacheStatus /\ UNCHANGED refreshed
    \/ \E r \in BagToSet(lookups) : \E v \in Fetcher(r.key) :
            LookupResolve(r, v) /\ UNCHANGED refreshed
    \/ \E r \in BagToSet(lookups) : LookupReject(r) /\ UNCHANGED refreshed
    \/ \E t \in BagToSet(refreshes) : \E v \in Fetcher(t.key) :
            /\ RefreshResolve(t, v)
            /\ refreshed' = [refreshed EXCEPT ![t.key] = v]
    \/ \E t \in BagToSet(refreshes) : RefreshReject(t) /\ UNCHANGED refreshed
    \/ \E k \in Keys : \E v \in Fetcher(k) : InitFetchResolve(k, v) /\ UNCHANGED refreshed
    \/ \E k \in Keys : InitFetchReject(k) /\ UNCHANGED refreshed

SpecHistory == Init /\ [][NextHistory]_vars

\* A direct call of the exported checkAndRefreshCache by a user of utils.ts
\* (the server itself calls it from lookupLatestVersion only, for a key that
\* has an entry).
CheckAndRefreshCache(type, preview) ==
    /\ checkAndRefreshCache(getCacheKey(type, preview))
    /\ lookups' = lookups
    /\ InFlight' <= MaxInFlight
    /\ res' = NoRes
    /\ UNCHANGED <<now, listening, initState, initFetch>>

\* The server together with direct calls of checkAndRefreshCache.
NextDirect ==
    \/ Next
    \/ \E c \in Followed : CheckAndRefreshCache(c.type, c.preview) /\ UNCHANGED refreshed

SpecDirect == Init /\ [][NextDirect]_vars

\* Some background refresh of the key settles: its scraper call resolves or
\* rejects.
RefreshSettles(key) ==
    /\ \E t \in BagToSet(refreshes) :
            /\ t.key = key
            /\ \/ \E v \in Fetcher(key) : RefreshResolve(t, v)
               \/ RefreshReject(t)
    /\ UNCHANGED refreshed

\* The server, when no scraper call of a background refresh stays pending
\* for ever (the scraper returns or throws: its browser calls time out).
FairSpec == Spec /\ \A k \in Keys : WF_vars(RefreshSettles(k))

\* The warm-up scraper call of the key settles: it resolves or rejects.
InitFetchSettles(key) ==
    /\ \/ \E v \in Fetcher(key) : InitFetchResolve(key, v)
       \/ InitFetchReject(key)
    /\ UNCHANGED refreshed

\* The server, when no scraper call of warm-up stays pending for ever.
WarmupFairSpec == Spec /\ \A k \in Keys : WF_vars(InitFetchSettles(k))

(***************************************************************************)
(* Vocabulary of the properties                                            *)
(***************************************************************************)
\* The entry of key is older than the cache duration / younger than it.
Stale(key) ==
    key \in DOMAIN versionCache
    /\ now - versionCache[key].timestamp >= CACHE_DURATION_MS

Fresh(key) ==
    key \in DOMAIN versionCache
    /\ now - versionCache[key].timestamp < CACHE_DURATION_MS

\* The background refreshes of key that are in flight.
RefreshesOf(key) == {t \in BagToSet(refreshes) : t.key = key}

InFlightRefreshes(key) ==
    BagCardinality([t \in RefreshesOf(key) |-> refreshes[t]])

\* The cache-miss lookups of key that are in flight.
InFlightLookups(key) ==
    BagCardinality([r \in {q \in BagToSet(lookups) : q.key = key} |-> lookups[r]])

(***************************************************************************)
(* C1. Single-flight: in every reachable state, at most one background     *)
(* refresh per key is in flight.                                           *)
(***************************************************************************)
C1_SingleFlight ==
    \A k \in Keys : InFlightRefreshes(k) <= 1

(***************************************************************************)
(* C2. A lookup of a key whose entry is stale, with no refresh of the key  *)
(* in flight, answers with the stored version at once and starts exactly   *)
(* one background refresh; a lookup of the key made while a refresh of it  *)
(* is in flight answers with the stored version and starts no scraper      *)
(* call.                                                                   *)
(***************************************************************************)
C2_StaleServedOneRefresh ==
    [][\A c \in Followed :
        LET key == getCacheKey(c.type, c.preview)
        IN  (key \in DOMAIN versionCache /\ GetVersion(c.type, c.preview)) =>
              /\ (Stale(key) /\ InFlightRefreshes(key) = 0) =>
                    /\ res' = VersionRes(key, versionCache[key].version, TRUE)
                    /\ lookups' = lookups
                    /\ refreshes' = refreshes (+) SetToBag({
                            [key |-> key, entry |-> versionCache[key].obj]})
              /\ InFlightRefreshes(key) >= 1 =>
                    /\ res' = VersionRes(key, versionCache[key].version, TRUE)
                    /\ lookups' = lookups
                    /\ refreshes' = refreshes]_vars

(***************************************************************************)
(* C3. A lookup of a key that has no entry starts exactly one scraper      *)
(* call, which it awaits; when that call resolves, the version it answers  *)
(* with is stored, and /cache/status then reports the key as cached with   *)
(* that version.                                                           *)
(***************************************************************************)
C3_MissFetchesOnceAndStores ==
    [][/\ \A c \in Followed :
            LET key == getCacheKey(c.type, c.preview)
            IN  (key \notin DOMAIN versionCache /\ GetVersion(c.type, c.preview)) =>
                    /\ lookups' = lookups (+) SetToBag({[key |-> key, isFromCache |-> FALSE]})
                    /\ refreshes' = refreshes
                    /\ versionCache' = versionCache
                    /\ res' = NoRes
       /\ lookups' # lookups =>
            \A r \in BagToSet(lookups) : \A v \in Fetcher(r.key) :
                LookupResolve(r, v) =>
                    /\ res' = VersionRes(r.key, v, FALSE)
                    /\ cacheStatus'[r.key] = [cached |-> TRUE, version |-> v]]_vars

\* A cache-miss lookup has just answered, and the status of its key shows
\* the version it answered with.
C3_Witness ==
    /\ res.kind = "version"
    /\ ~res.cached
    /\ cacheStatus[res.key] = [cached |-> TRUE, version |-> res.version]

(***************************************************************************)
(* C4. A lookup of a key whose entry is fresh answers with the stored      *)
(* version, starts no scraper call (awaited or in the background) and      *)
(* leaves the cache as it was.                                             *)
(***************************************************************************)
C4_FreshServedNoFetch ==
    [][\A c \in Followed :
        LET key == getCacheKey(c.type, c.preview)
        IN  (Fresh(key) /\ GetVersion(c.type, c.preview)) =>
                /\ res' = VersionRes(key, versionCache[key].version, TRUE)
                /\ versionCache' = versionCache
                /\ lookups' = lookups
                /\ refreshes' = refreshes]_vars

\* A lookup has just been answered from an entry one millisecond short of
\* the cache duration, and no scraper call is in flight.
C4_Witness ==
    /\ res.kind = "version"
    /\ res.cached
    /\ Fresh(res.key)
    /\ now - versionCache[res.key].timestamp = CACHE_DURATION_MS - 1
    /\ ~versionCache[res.key].refreshing
    /\ lookups = EmptyBag
    /\ refreshes = EmptyBag

(***************************************************************************)
(* C5. A lookup fails only when its key had no entry when it was called    *)
(* and the scraper call it awaited rejects: a lookup of a key that has an  *)
(* entry answers with the stored version, whatever happens to background   *)
(* refreshes.                                                              *)
(***************************************************************************)
C5_FailsOnlyOnFailedMiss ==
    [][/\ \A c \in Followed :
            LET key == getCacheKey(c.type, c.preview)
            IN  (key \in DOMAIN versionCache /\ GetVersion(c.type, c.preview)) =>
                    /\ res' = VersionRes(key, versionCache[key].version, TRUE)
                    /\ lookups' = lookups
       \* a lookup is suspended at the scraper only when its key has no entry
       /\ lookups' # lookups =>
            \A k \in Keys :
                InFlightLookups(k)' > InFlightLookups(k) => k \notin DOMAIN versionCache
       \* an error is the answer of a suspended lookup, and of nothing else
       /\ (res'.kind = "error" /\ res' # res) =>
            \E r \in BagToSet(lookups) :
                /\ r.key = res'.key
                /\ lookups' = lookups (-) SetToBag({r})]_vars

\* A lookup has failed for a key that still has no entry, while a lookup of
\* another key, stale and being refreshed, was served before.
C5_Witness ==
    /\ res.kind = "error"
    /\ res.key \notin DOMAIN versionCache
    /\ \E k \in Keys : Stale(k) /\ versionCache[k].refreshing

(***************************************************************************)
(* C6. When the scraper call of a background refresh rejects, the entry of *)
(* the key keeps its version and timestamp, its refreshing flag is false   *)
(* afterwards, and /cache/status reports what it reported before.          *)
(***************************************************************************)
C6_FailedRefreshKeepsEntry ==
    [][\A t \in BagToSet(refreshes) :
        RefreshReject(t) =>
            /\ t.key \in DOMAIN versionCache'
            /\ versionCache'[t.key].version = versionCache[t.key].version
            /\ versionCache'[t.key].timestamp = versionCache[t.key].timestamp
            /\ ~versionCache'[t.key].refreshing
            /\ cacheStatus' = cacheStatus]_vars

(***************************************************************************)
(* C7. A key gets its entry only in a step in which a scraper call for     *)
(* that key resolves; a cache-miss lookup whose scraper call rejects       *)
(* answers with an error and creates no entry, and a warm-up call that     *)
(* rejects creates no entry.                                               *)
(***************************************************************************)
C7_NoEntryBeforeSuccess ==
    [][/\ \A k \in Keys \ DOMAIN versionCache :
            k \in DOMAIN versionCache' =>
                \E v \in Fetcher(k) :
                    /\ versionCache'[k].version = v
                    /\ \/ InitFetchResolve(k, v)
                       \/ \E r \in BagToSet(lookups) : r.key = k /\ LookupResolve(r, v)
                       \/ \E t \in BagToSet(refreshes) : t.key = k /\ RefreshResolve(t, v)
       /\ lookups' # lookups =>
            \A r \in BagToSet(lookups) :
                LookupReject(r) => res' = ErrorRes(r.key) /\ versionCache' = versionCache
       /\ initFetch' # initFetch =>
            \A k \in Keys :
                InitFetchReject(k) => versionCache' = versionCache]_vars

\* The warm-up call of a key has failed, a lookup of the key has failed too,
\* and the key has no entry.
C7_Witness ==
    /\ res.kind = "error"
    /\ initFetch[res.key] = "failed"
    /\ res.key \notin DOMAIN versionCache

(***************************************************************************)
(* C8. Warm-up failure isolation: when initializeCache has finished, every *)
(* key whose warm-up call resolved has an entry with the version that call *)
(* fetched, whichever other warm-up calls rejected, and initializeCache    *)
(* has completed without failing.                                          *)
(***************************************************************************)
C8_WarmupIsolation ==
    [][/\ initState' # "failed"
       /\ (\A k \in Keys : initFetch'[k] \in {"done", "failed"}) => initState' = "completed"
       \* the step in which initializeCache finishes
       \* with the warm-up call of some key rejected
       /\ (/\ initState = "running" /\ initState' = "completed"
           /\ \E f \in Keys : initFetch'[f] = "failed") =>
            \A k \in Keys :
                /\ initFetch[k] \in Fetcher(k) =>
                        /\ k \in DOMAIN versionCache'
                        /\ versionCache'[k].version = initFetch[k]
                /\ \A v \in Fetcher(k) :
                        InitFetchResolve(k, v) => versionCache'[k].version = v]_vars

(***************************************************************************)
(* C9. Warm-up precedes readiness: no lookup is processed (none answered,  *)
(* none suspended, no refresh started by one) before initializeCache has   *)
(* finished.                                                               *)
(***************************************************************************)
C9_WarmupBeforeLookups ==
    (res.kind \in {"version", "error"} \/ lookups # EmptyBag \/ refreshes # EmptyBag)
        => initState = "completed"

(***************************************************************************)
(* C10. /cache/status is a pure read: a step that answers it changes no    *)
(* entry, starts no scraper call, and reports for every key whether it has *)
(* an entry and the stored version, stale or not; so two such answers with *)
(* no write of the cache between them are the same.                        *)
(***************************************************************************)
C10_StatusPureRead ==
    [][res'.kind = "status" =>
        /\ UNCHANGED <<versionCache, lookups, refreshes, initFetch, initState, now>>
        /\ \A k \in Keys :
            res'.entries[k] =
                IF k \in DOMAIN versionCache
                THEN [cached |-> TRUE, version |-> versionCache[k].version]
                ELSE [cached |-> FALSE, version |-> null]]_vars

\* The status has just been reported while one key has a stale entry (shown
\* as cached) and the other has none.
C10_Witness ==
    /\ res.kind = "status"
    /\ \E k \in Keys : Stale(k) /\ res.entries[k].cached
    /\ \E k \in Keys : k \notin DOMAIN versionCache /\ ~res.entries[k].cached

(***************************************************************************)
(* C11. Refresh visibility: once a background refresh of a key has         *)
(* resolved with a version, the next lookup of the key answers with that   *)
(* version.  (Checked with the history kept: refreshed[key] is the version *)
(* of the refresh that resolved since the last lookup of the key.)         *)
(***************************************************************************)
C11_RefreshVisible ==
    [][\A c \in Followed :
        LET key == getCacheKey(c.type, c.preview)
        IN  (refreshed[key] # "none" /\ GetVersion(c.type, c.preview)) =>
                /\ res'.kind = "version"
                /\ res'.version = refreshed[key]]_vars

(***************************************************************************)
(* C12. Per-key write serialization: while a background refresh of a key   *)
(* is in flight, no cache-miss lookup and no warm-up call writes the key's *)
(* entry; the entry is written only by the completion of a refresh.        *)
(***************************************************************************)
C12_OnlyRefreshWrites ==
    [][\A k \in Keys :
        InFlightRefreshes(k) >= 1 =>
            /\ \A v \in Fetcher(k) : ~InitFetchResolve(k, v)
            /\ \A r \in BagToSet(lookups) : \A v \in Fetcher(k) :
                    r.key = k => ~LookupResolve(r, v)
            /\ (k \in DOMAIN versionCache /\ versionCache'[k] # versionCache[k]) =>
                    \/ \E t \in RefreshesOf(k) :
                            \/ \E v \in Fetcher(k) : RefreshResolve(t, v)
                            \/ RefreshReject(t)
                    \/ \E c \in Followed : GetVersion(c.type, c.preview)]_vars

(***************************************************************************)
(* C13. Burst de-duplication: a lookup of a key made while a scraper call  *)
(* started by an earlier lookup of the key (awaited on a cache miss, or a  *)
(* background refresh) is still in flight starts no further scraper call.  *)
(***************************************************************************)
C13_BurstOneFetch ==
    [][\A c \in Followed :
        LET key == getCacheKey(c.type, c.preview)
        IN  (/\ InFlightLookups(key) + InFlightRefreshes(key) >= 1
             /\ GetVersion(c.type, c.preview)) =>
                /\ lookups' = lookups
                /\ refreshes' = refreshes]_vars

(***************************************************************************)
(* C14. In every reachable state, a key with a background refresh in       *)
(* flight has an entry whose refreshing flag is true.                      *)
(***************************************************************************)
C14_FlagWhileRefreshing ==
    \A k \in Keys :
        InFlightRefreshes(k) >= 1 =>
            k \in DOMAIN versionCache /\ versionCache[k].refreshing

(***************************************************************************)
(* C15. In every reachable state, a key whose entry has refreshing = true  *)
(* has exactly one background refresh in flight, the one that marked the   *)
(* entry (it holds the entry object).                                      *)
(***************************************************************************)
C15_FlagHasOneOwner ==
    \A k \in DOMAIN versionCache :
        versionCache[k].refreshing =>
            /\ InFlightRefreshes(k) = 1
            /\ \A t \in RefreshesOf(k) : t.entry = versionCache[k].obj

(***************************************************************************)
(* C16. No permanent wedge: when every scraper call of a background        *)
(* refresh eventually resolves or rejects, a key whose entry has           *)
(* refreshing = true eventually has an entry with refreshing = false.      *)
(***************************************************************************)
C16_FlagEventuallyCleared ==
    \A k \in Keys :
        (k \in DOMAIN versionCache /\ versionCache[k].refreshing)
            ~> (k \in DOMAIN versionCache /\ ~versionCache[k].refreshing)

\* An entry is marked while two refreshes of its key are in flight, the
\* older of which holds an object that is no longer the key's entry: the
\* failure of that one does not clear the flag.
C16_Witness ==
    \E k \in DOMAIN versionCache :
        /\ versionCache[k].refreshing
        /\ InFlightRefreshes(k) = 2
        /\ \E t \in RefreshesOf(k) : t.entry # versionCache[k].obj

(***************************************************************************)
(* C17. Retry after failure: when a background refresh of a key has failed *)
(* and the key's entry is still stale, the next lookup of the key starts   *)
(* exactly one new background refresh: the failure leaves the stale entry  *)
(* unmarked, and a lookup of a stale, unmarked entry starts one refresh.   *)
(***************************************************************************)
C17_RetryAfterFailure ==
    [][/\ \A t \in BagToSet(refreshes) :
            (RefreshReject(t) /\ Stale(t.key)') => ~versionCache'[t.key].refreshing
       /\ \A c \in Followed :
            LET key == getCacheKey(c.type, c.preview)
            IN  (/\ Stale(key) /\ ~versionCache[key].refreshing
                 /\ GetVersion(c.type, c.preview)) =>
                    refreshes' = refreshes (+) SetToBag({
                        [key |-> key, entry |-> versionCache[key].obj]})]_vars

(***************************************************************************)
(* C18. Entries are never deleted: a key that has an entry has one in      *)
(* every later state, the entry's version and timestamp change only in a   *)
(* step in which a scraper call for the key resolves, and a lookup of a    *)
(* key that has an entry never awaits the scraper.                         *)
(***************************************************************************)
C18_EntriesNeverDeleted ==
    [][/\ \A k \in DOMAIN versionCache :
            /\ k \in DOMAIN versionCache'
            /\ (\/ versionCache'[k].version # versionCache[k].version
                \/ versionCache'[k].timestamp # versionCache[k].timestamp) =>
                    \E v \in Fetcher(k) :
                        /\ versionCache'[k].version = v
                        /\ \/ InitFetchResolve(k, v)
                           \/ \E r \in BagToSet(lookups) : r.key = k /\ LookupResolve(r, v)
                           \/ \E t \in BagToSet(refreshes) : t.key = k /\ RefreshResolve(t, v)
       /\ \A c \in Followed :
            (/\ getCacheKey(c.type, c.preview) \in DOMAIN versionCache
             /\ GetVersion(c.type, c.preview)) =>
                /\ lookups' = lookups
                /\ res'.kind = "version"]_vars

\* Both keys have an entry, one of them stored over an earlier entry of the
\* key (its object was created while a refresh held the earlier one), and a
\* lookup of that key has just been answered from it.
C18_Witness ==
    /\ DOMAIN versionCache = Keys
    /\ res.kind = "version"
    /\ res.cached
    /\ versionCache[res.key].obj = 2

(***************************************************************************)
(* C19. Key independence: the four combinations have four distinct cache   *)
(* keys, and every operation for a key (a lookup, the start, success or    *)
(* failure of a refresh, the end of a cache-miss or warm-up fetch) leaves  *)
(* the entry of every other key as it was.                                 *)
(***************************************************************************)
OperationFor(key) ==
    \/ \E c \in Followed :
            getCacheKey(c.type, c.preview) = key /\ GetVersion(c.type, c.preview)
    \/ \E r \in BagToSet(lookups) :
            /\ r.key = key
            /\ \/ \E v \in Fetcher(key) : LookupResolve(r, v)
               \/ LookupReject(r)
    \/ \E t \in BagToSet(refreshes) :
            /\ t.key = key
            /\ \/ \E v \in Fetcher(key) : RefreshResolve(t, v)
               \/ RefreshReject(t)
    \/ \E v \in Fetcher(key) : InitFetchResolve(key, v)
    \/ InitFetchReject(key)

C19_KeyIndependence ==
    [][/\ Cardinality({getCacheKey(combinations[i].type, combinations[i].preview) :
                            i \in DOMAIN combinations}) = Len(combinations)
       \* a step that changes the entry of k is no operation for another key
       /\ \A k \in Keys :
            (\/ (k \in DOMAIN versionCache') # (k \in DOMAIN versionCache)
             \/ k \in DOMAIN versionCache /\ versionCache'[k] # versionCache[k]) =>
                \A key \in Keys \ {k} : ~OperationFor(key)]_vars

\* A lookup of a stale key has just marked its entry and started a refresh,
\* while the other key's entry is fresh and unmarked.
C19_Witness ==
    /\ res.kind = "version"
    /\ Stale(res.key)
    /\ versionCache[res.key].refreshing
    /\ \E k \in Keys \ {res.key} : Fresh(k) /\ ~versionCache[k].refreshing

(***************************************************************************)
(* C20. Freshness boundary: a lookup of a key whose entry has age          *)
(* now - timestamp < CACHE_DURATION_MS starts no refresh; a lookup at age  *)
(* CACHE_DURATION_MS exactly, or later, finds the entry stale and starts a *)
(* refresh (when the entry is not marked as being refreshed).              *)
(***************************************************************************)
C20_FreshnessBoundary ==
    [][\A c \in Followed :
        LET key == getCacheKey(c.type, c.preview)
        IN  (key \in DOMAIN versionCache /\ GetVersion(c.type, c.preview)) =>
                LET entry == versionCache[key]
                    age == now - entry.timestamp
                IN  /\ age < CACHE_DURATION_MS =>
                        /\ refreshes' = refreshes
                        /\ versionCache' = versionCache
                    /\ (age >= CACHE_DURATION_MS /\ ~entry.refreshing) =>
                        /\ refreshes' = refreshes (+) SetToBag({
                                [key |-> key, entry |-> entry.obj]})
                        /\ versionCache'[key].refreshing]_vars

\* A lookup has just been answered from an entry exactly as old as the
\* cache duration, and the refresh of that entry is in flight.
C20_Witness ==
    /\ res.kind = "version"
    /\ res.cached
    /\ now - versionCache[res.key].timestamp = CACHE_DURATION_MS
    /\ versionCache[res.key].refreshing
    /\ RefreshesOf(res.key) = {[key |-> res.key, entry |-> versionCache[res.key].obj]}

(***************************************************************************)
(* C21. The cached field of a GET /version answer is true exactly when the *)
(* lookup answered from an entry of the key without awaiting the scraper:  *)
(* the handler's read of the cache and lookupLatestVersion's own read are  *)
(* made in the same run, with no write of the cache between them.          *)
(***************************************************************************)
C21_CachedFlagMatchesPath ==
    [][/\ \A c \in Followed :
            LET key == getCacheKey(c.type, c.preview)
            IN  GetVersion(c.type, c.preview) =>
                    IF key \in DOMAIN versionCache
                    THEN /\ res' = VersionRes(key, versionCache[key].version, TRUE)
                         /\ lookups' = lookups
                    ELSE /\ res' = NoRes
                         /\ lookups' = lookups (+) SetToBag({[key |-> key, isFromCache |-> FALSE]})
       \* an answer with cached = true is sent by the run that read the entry
       /\ (res'.kind = "version" /\ res'.cached) =>
            /\ lookups' = lookups
            /\ res'.key \in DOMAIN versionCache
            /\ res'.version = versionCache[res'.key].version
       \* an answer with cached = false is sent when an awaited scraper call resolves
       /\ (res'.kind = "version" /\ ~res'.cached) =>
            \E r \in BagToSet(lookups) :
                /\ r.key = res'.key
                /\ lookups' = lookups (-) SetToBag({r})
                /\ res'.version \in Fetcher(r.key)]_vars

\* A lookup has just been answered with cached = true from a stale entry,
\* for which it started a background (not awaited) scraper call, while a
\* lookup of the other key is awaiting the scraper.
C21_Witness ==
    /\ res.kind = "version"
    /\ res.cached
    /\ Stale(res.key)
    /\ res.version = versionCache[res.key].version
    /\ InFlightRefreshes(res.key) = 1
    /\ \E k \in Keys \ {res.key} : InFlightLookups(k) = 1

(***************************************************************************)
(* C22. Every scraper call that resolves and writes the cache (of a        *)
(* cache-miss lookup, of warm-up, of a background refresh) leaves the key  *)
(* with an entry whose version is the one fetched, whose timestamp is the  *)
(* time at which the call resolved, and whose refreshing flag is false,    *)
(* whatever entry the key had before.                                      *)
(***************************************************************************)
Put(key, version) ==
    /\ key \in DOMAIN versionCache'
    /\ versionCache'[key].version = version
    /\ versionCache'[key].timestamp = now
    /\ now' = now
    /\ ~versionCache'[key].refreshing

C22_PutSetsEntry ==
    [][/\ \A r \in BagToSet(lookups) :
            (res'.kind = "version" /\ CopiesIn(r, lookups') < CopiesIn(r, lookups)) =>
                \A v \in Fetcher(r.key) : LookupResolve(r, v) => Put(r.key, v)
       /\ \A t \in BagToSet(refreshes) :
            (res'.kind = "none" /\ CopiesIn(t, refreshes') < CopiesIn(t, refreshes)) =>
                \A v \in Fetcher(t.key) : RefreshResolve(t, v) => Put(t.key, v)
       /\ \A k \in Keys :
            (initFetch[k] = "pending" /\ initFetch'[k] # "pending") =>
                \A v \in Fetcher(k) : InitFetchResolve(k, v) => Put(k, v)]_vars

\* A warm-up call started when the server began to listen (time 0) has
\* resolved a cache duration later, over an entry that was marked as being
\* refreshed: the entry has the version fetched, the time of the
\* resolution, and no mark, while the refresh is still in flight.
C22_Witness ==
    \E k \in DOMAIN versionCache :
        /\ initFetch[k] = versionCache[k].version
        /\ now > 0
        /\ versionCache[k].timestamp = now
        /\ ~versionCache[k].refreshing
        /\ InFlightRefreshes(k) = 1
        /\ res = NoRes

(***************************************************************************)
(* C23. Warm-up fan-in: initializeCache starts the scraper calls of all    *)
(* keys in one run, none waiting for another; it has completed exactly     *)
(* when every one of them has resolved or rejected; and when every warm-up *)
(* scraper call eventually resolves or rejects, warm-up eventually         *)
(* completes.                                                              *)
(***************************************************************************)
C23_WarmupFanIn ==
    /\ [][(~listening /\ listening') =>
                /\ \A k \in Keys : initFetch'[k] = "pending"
                /\ initState' = "running"]_vars
    /\ [](listening =>
                /\ initState \in {"running", "completed"}
                /\ initState = "completed" <=> \A k \in Keys : initFetch[k] # "pending")
    /\ listening ~> (initState = "completed")

\* initializeCache has completed after one warm-up call resolved and the
\* other rejected.
C23_Witness ==
    /\ initState = "completed"
    /\ \E k \in Keys : initFetch[k] = "failed"
    /\ \E k \in Keys : initFetch[k] = "done" /\ k \in DOMAIN versionCache

(***************************************************************************)
(* C24. checkAndRefreshCache claims the refresh before it starts it, for a *)
(* key that has no entry as for one whose entry is stale: a call made      *)
(* while a background refresh of the key is in flight starts no further    *)
(* scraper call.  (Checked with direct calls of checkAndRefreshCache.)     *)
(***************************************************************************)
C24_EnsureFreshClaims ==
    [][\A c \in Followed :
        LET key == getCacheKey(c.type, c.preview)
        IN  (InFlightRefreshes(key) >= 1 /\ CheckAndRefreshCache(c.type, c.preview)) =>
                refreshes' = refreshes]_vars

(***************************************************************************)
(* C25. Value provenance: a key's entry takes a version only in a step in  *)
(* which a scraper call for that key resolves with it; a lookup answers    *)
(* with the version stored for its key or with the version its own         *)
(* scraper call resolved with; /cache/status reports the stored versions.  *)
(* So every version served for a key was returned by a scraper call for    *)
(* that key (the scraper's results are disjoint between keys here).        *)
(***************************************************************************)
C25_ValueProvenance ==
    /\ [](/\ \A k \in DOMAIN versionCache : versionCache[k].version \in Fetcher(k)
          /\ res.kind = "version" => res.version \in Fetcher(res.key)
          /\ res.kind = "status" =>
                \A k \in Keys :
                    IF res.entries[k].cached
                    THEN res.entries[k].version \in Fetcher(k)
                    ELSE res.entries[k].version = null)
    /\ [][/\ \A k \in DOMAIN versionCache' :
               (k \notin DOMAIN versionCache
                   \/ versionCache'[k].version # versionCache[k].version) =>
                   \E v \in Fetcher(k) :
                       /\ versionCache'[k].version = v
                       /\ \/ InitFetchResolve(k, v)
                          \/ \E r \in BagToSet(lookups) : r.key = k /\ LookupResolve(r, v)
                          \/ \E t \in BagToSet(refreshes) : t.key = k /\ RefreshResolve(t, v)
          /\ res'.kind = "version" =>
               \/ /\ lookups' = lookups
                  /\ res'.key \in DOMAIN versionCache
                  /\ res'.version = versionCache[res'.key].version
               \/ \E r \in BagToSet(lookups) :
                       r.key = res'.key /\ LookupResolve(r, res'.version)
          /\ res'.kind = "status" =>
               \A k \in Keys :
                   res'.entries[k].version =
                       IF k \in DOMAIN versionCache THEN versionCache[k].version ELSE null]_vars

\* The status has just been reported with both keys cached, each with a
\* version of its own scraper, one of them stored by a later fetch than
\* the other.
C25_Witness ==
    /\ res.kind = "status"
    /\ DOMAIN versionCache = Keys
    /\ \A k \in Keys : res.entries[k].cached /\ res.entries[k].version \in Fetcher(k)
    /\ \E j, k \in Keys : versionCache[j].timestamp < versionCache[k].timestamp

====
